---- MODULE Spec2Model ----
(***************************************************************************)
(* Model of the two tools of lmstudio-web-plugin (final revision, the      *)
(* second module of src/unnamed/part_000, lines 186-575): Search, which    *)
(* builds a SearXNG query URL, fetches it and maps/truncates the results,  *)
(* and Visit, which fetches a page and returns it raw or as an extracted,  *)
(* normalised and truncated article.                                       *)
(*                                                                         *)
(* Strings whose characters matter (URLs, messages, page text) are         *)
(* sequences of one-character strings.  Values of nullable type are        *)
(* sequences of length at most one: <<>> is null, <<v>> is the value v.    *)
(***************************************************************************)
EXTENDS Integers, Sequences, FiniteSets, TLC

(* ---------------------------- bounds ----------------------------------- *)

\* Number of invocation slots the host may have in flight.
NumCalls == 2
\* Largest configured search.maxResults explored (the slider allows 0..50).
MaxResults == 2
\* Longest upstream `results` array explored.
MaxUpstream == 3
\* Largest configured visit.maxContentLength explored (slider 0..65536).
MaxContentLength == 3
\* Longest article textContent explored.
MaxTextLen == 5

Calls == 1..NumCalls

(* ------------------------ string helpers ------------------------------- *)

Min(a, b) == IF a < b THEN a ELSE b

\* String.prototype / Array.prototype slice(0, n) for n >= 0.
Slice0(s, n) == SubSeq(s, 1, Min(n, Len(s)))

RECURSIVE Flatten(_)
Flatten(ss) == IF ss = <<>> THEN <<>> ELSE Head(ss) \o Flatten(Tail(ss))

\* Array.prototype.join(sep) on a list of strings.
RECURSIVE Join(_, _)
Join(list, sep) ==
    IF list = <<>> THEN <<>>
    ELSE IF Len(list) = 1 THEN list[1]
    ELSE list[1] \o sep \o Join(Tail(list), sep)

Contains(s, sub) ==
    \E i \in 0..(Len(s) - Len(sub)) : SubSeq(s, i + 1, i + Len(sub)) = sub

(* --------------------- literals of the source -------------------------- *)

FailedRequestPrefix ==
    <<"F", "a", "i", "l", "e", "d", " ", "t", "o", " ", "m", "a", "k",
      "e", " ", "r", "e", "q", "u", "e", "s", "t", ":", " ">>

ExtractFailure ==
    <<"F", "a", "i", "l", "e", "d", " ", "t", "o", " ", "e", "x", "t",
      "r", "a", "c", "t", " ", "r", "e", "a", "d", "a", "b", "l", "e",
      " ", "c", "o", "n", "t", "e", "n", "t", ".">>

TruncationMarker ==
    <<".", ".", ".", "T", "e", "x", "t", " ", "t", "r", "u", "n", "c",
      "a", "t", "e", "d", " ", "d", "u", "e", " ", "t", "o", " ", "l",
      "e", "n", "g", "t", "h", " ", "l", "i", "m", "i", "t">>

ParamQ == <<"q">>
ParamEngines == <<"e", "n", "g", "i", "n", "e", "s">>
ParamLanguage == <<"l", "a", "n", "g", "u", "a", "g", "e">>
ParamFormat == <<"f", "o", "r", "m", "a", "t">>
ParamSafesearch == <<"s", "a", "f", "e", "s", "e", "a", "r", "c", "h">>
FormatJson == <<"j", "s", "o", "n">>

(* --------------------- configuration (host-owned) ---------------------- *)

DefaultBaseURL ==
    <<"h", "t", "t", "p", ":", "/", "/", "l", "o", "c", "a", "l", "h",
      "o", "s", "t", "/", "s", "e", "a", "r", "c", "h">>
\* A base URL with an empty path: new URL() serialises it with a "/".
HostOnlyBaseURL ==
    <<"h", "t", "t", "p", ":", "/", "/", "l", "o", "c", "a", "l", "h",
      "o", "s", "t">>
\* Not an absolute URL: new URL() throws a TypeError.
RelativeBaseURL ==
    <<"l", "o", "c", "a", "l", "h", "o", "s", "t", "/", "s", "e", "a",
      "r", "c", "h">>

Google == <<"g", "o", "o", "g", "l", "e">>
Bing == <<"b", "i", "n", "g">>
Wikipedia == <<"w", "i", "k", "i", "p", "e", "d", "i", "a">>

EnUS == <<"e", "n", "-", "U", "S">>
De == <<"d", "e">>

SafeSearchLevels == {"Off", "Moderate", "Strict"}

DefaultMaxResults == 5
DefaultMaxContentLength == 4096

DefaultSearch ==
    [baseURL |-> DefaultBaseURL, maxResults |-> DefaultMaxResults,
     engines |-> <<Google, Bing, Wikipedia>>, safeSearch |-> "Off",
     language |-> EnUS]

DefaultVisit ==
    [forceRaw |-> FALSE, maxContentLength |-> DefaultMaxContentLength]

\* The search group as the host may have it configured.
SearchGroups ==
    [baseURL : {DefaultBaseURL, HostOnlyBaseURL, RelativeBaseURL},
     maxResults : 0..MaxResults,
     engines : {<<Bing>>, <<Google, Bing>>},
     safeSearch : SafeSearchLevels,
     language : {EnUS, De}]

\* The visit group as the host may have it configured.
VisitGroups ==
    [forceRaw : BOOLEAN, maxContentLength : 0..MaxContentLength]

(* ------------------- Search: building the request ---------------------- *)

\* Earlier revision of the mapping (part_000 lines 104-110): Strict -> 2.
SafeSearchNumberEarlier(safeSearchValue) ==
    IF safeSearchValue = "Moderate" THEN 1
    ELSE IF safeSearchValue = "Strict" THEN 2
    ELSE 0

\* const safeSearch: number = ... (nested conditional expression).
SafeSearchNumber(safeSearchValue) ==
    IF safeSearchValue = "Moderate" THEN 1
    ELSE IF safeSearchValue = "Strict" THEN 0
    ELSE 2

\* Number.prototype.toString() for the values safeSearch can take.
DigitString(n) ==
    CASE n = 0 -> <<"0">>
      [] n = 1 -> <<"1">>
      [] n = 2 -> <<"2">>

\* Characters the application/x-www-form-urlencoded serialiser of
\* URLSearchParams leaves as they are: ASCII alphanumerics and * - . _
FormSafe ==
    {"a", "b", "c", "d", "e", "f", "g", "h", "i", "j", "k", "l", "m",
     "n", "o", "p", "q", "r", "s", "t", "u", "v", "w", "x", "y", "z",
     "A", "B", "C", "D", "E", "F", "G", "H", "I", "J", "K", "L", "M",
     "N", "O", "P", "Q", "R", "S", "T", "U", "V", "W", "X", "Y", "Z",
     "0", "1", "2", "3", "4", "5", "6", "7", "8", "9",
     "*", "-", ".", "_"}

\* Percent-encoding of the other characters that occur in the model.
PercentEncoded(c) ==
    CASE c = "&" -> <<"%", "2", "6">>
      [] c = "+" -> <<"%", "2", "B">>
      [] c = "," -> <<"%", "2", "C">>
      [] c = "/" -> <<"%", "2", "F">>
      [] c = ":" -> <<"%", "3", "A">>
      [] c = "=" -> <<"%", "3", "D">>
      [] c = "%" -> <<"%", "2", "5">>

\* One character through the urlencoded serialiser: a space becomes "+".
FormEncodeChar(c) ==
    IF c \in FormSafe THEN <<c>>
    ELSE IF c = " " THEN <<"+">>
    ELSE PercentEncoded(c)

FormEncode(s) == Flatten([i \in 1..Len(s) |-> FormEncodeChar(s[i])])

\* URLSearchParams serialisation: name=value pairs joined by "&".
SerializeParams(params) ==
    Join([i \in 1..Len(params) |->
            FormEncode(params[i][1]) \o <<"=">> \o FormEncode(params[i][2])],
         <<"&">>)

SchemeSeparator == <<":", "/", "/">>

\* Position of "://" in s, 0 when there is none.
SchemeEnd(s) ==
    LET hits == {i \in 2..(Len(s) - 2) : SubSeq(s, i, i + 2) = SchemeSeparator}
    IN IF hits = {} THEN 0 ELSE CHOOSE i \in hits : \A j \in hits : i <= j

\* new URL(s) succeeds only for an absolute URL; otherwise it throws.
IsAbsoluteURL(s) == SchemeEnd(s) > 0

\* The serialisation of new URL(s): an empty path becomes "/".
URLHref(s) ==
    LET rest == SubSeq(s, SchemeEnd(s) + 3, Len(s))
    IN IF \E i \in 1..Len(rest) : rest[i] = "/" THEN s ELSE s \o <<"/">>

\* The parameter list of the earlier revisions (part_000 lines 115-124),
\* which also sent the categories.
SearchParamsEarlier(search, query) ==
    << <<ParamQ, query>>,
       <<<<"c", "a", "t", "e", "g", "o", "r", "i", "e", "s">>,
         <<"g", "e", "n", "e", "r", "a", "l">>>>,
       <<ParamEngines, Join(search.engines, <<",">>)>>,
       <<ParamLanguage, search.language>>,
       <<ParamFormat, FormatJson>>,
       <<ParamSafesearch, DigitString(SafeSearchNumber(search.safeSearch))>> >>

\* The url.searchParams.append(...) calls, in order.
SearchParams(search, query) ==
    << <<ParamQ, query>>,
       <<ParamEngines, Join(search.engines, <<",">>)>>,
       <<ParamLanguage, search.language>>,
       <<ParamFormat, FormatJson>>,
       <<ParamSafesearch, DigitString(SafeSearchNumber(search.safeSearch))>> >>

\* url.toString() after the appends (the base URLs carry no query).
SearchURL(search, query) ==
    URLHref(search.baseURL) \o <<"?">> \o
        SerializeParams(SearchParams(search, query))

(* ------------------- Search: mapping the response ---------------------- *)

\* (r) => ({ title: r.title, summary: r.content, url: r.url })
MapResult(r) == [title |-> r.title, summary |-> r.content, url |-> r.url]

\* A cap that is off by one.
FilteredResultsOffByOne(results, maxResults) ==
    Slice0([i \in 1..Len(results) |-> MapResult(results[i])], maxResults + 1)

\* data.results.map(...).slice(0, config.get("search.maxResults"))
FilteredResults(results, maxResults) ==
    Slice0([i \in 1..Len(results) |-> MapResult(results[i])], maxResults)

(* ------------------------- shared: failure ----------------------------- *)

\* A failure message that leaves the status text out.
FailureStringNoStatus(statusText) == FailedRequestPrefix

\* `Failed to make request: ${response.statusText}`
FailureString(statusText) == FailedRequestPrefix \o statusText

(* ------------------- Visit: raw, clean, truncate ----------------------- *)

\* The earlier revisions (part_000 line 168) looked at returnRaw only.
IsRawEarlier(returnRaw, forceRaw) == returnRaw

\* returnRaw || config.get("visit.forceRaw")
IsRaw(returnRaw, forceRaw) == returnRaw \/ forceRaw

\* The regular-expression class \s, as far as ASCII goes.
Whitespace == {" ", "\t", "\n", "\r", "\f"}
\* The class [ \t].
Blank == {" ", "\t"}

\* Last index j >= i such that s[i..j] lies in the class cls.
RECURSIVE RunEnd(_, _, _)
RunEnd(s, i, cls) ==
    IF i < Len(s) /\ s[i + 1] \in cls THEN RunEnd(s, i + 1, cls) ELSE i

\* For s[i] = "\n": the end of the match of /\n\s*\n/ starting at i, or 0.
\* \s* is greedy, so the match ends at the last newline of the whitespace
\* run that starts at i.
BlankLinesMatchEnd(s, i) ==
    LET e == RunEnd(s, i, Whitespace)
        nl == {j \in (i + 1)..e : s[j] = "\n"}
    IN IF nl = {} THEN 0 ELSE CHOOSE j \in nl : \A k \in nl : k <= j

\* .replace(/\n\s*\n/g, "\n"), scanning from position i.
RECURSIVE ReplaceBlankLines(_, _)
ReplaceBlankLines(s, i) ==
    IF i > Len(s) THEN <<>>
    ELSE IF s[i] = "\n" /\ BlankLinesMatchEnd(s, i) > 0
         THEN <<"\n">> \o ReplaceBlankLines(s, BlankLinesMatchEnd(s, i) + 1)
         ELSE <<s[i]>> \o ReplaceBlankLines(s, i + 1)

\* .replace(/[ \t]+/g, " "), scanning from position i.
RECURSIVE CollapseBlanks(_, _)
CollapseBlanks(s, i) ==
    IF i > Len(s) THEN <<>>
    ELSE IF s[i] \in Blank
         THEN <<" ">> \o CollapseBlanks(s, RunEnd(s, i, Blank) + 1)
         ELSE <<s[i]>> \o CollapseBlanks(s, i + 1)

\* .trim()
Trim(s) ==
    LET keep == {i \in 1..Len(s) : s[i] \notin Whitespace}
    IN IF keep = {} THEN <<>>
       ELSE SubSeq(s, CHOOSE i \in keep : \A j \in keep : i <= j,
                      CHOOSE i \in keep : \A j \in keep : j <= i)

\* The earlier revisions (part_000 lines 175-178) had the second replace
\* commented out.
CleanTextEarlier(textContent) == Trim(ReplaceBlankLines(textContent, 1))

\* (article.textContent ?? "").replace(...).replace(...).trim(), applied to
\* the string left of the first replace.
CleanText(textContent) ==
    Trim(CollapseBlanks(ReplaceBlankLines(textContent, 1), 1))

\* A comparison that is off by one.
TruncateAtLimit(cleanText, maxContentLength) ==
    IF maxContentLength > 0 /\ Len(cleanText) >= maxContentLength
    THEN Slice0(cleanText, maxContentLength) \o TruncationMarker
    ELSE cleanText

\* if (maxContentLength > 0 && cleanText.length > maxContentLength) {...}
Truncate(cleanText, maxContentLength) ==
    IF maxContentLength > 0 /\ Len(cleanText) > maxContentLength
    THEN Slice0(cleanText, maxContentLength) \o TruncationMarker
    ELSE cleanText

\* x ?? "" on a nullable string.
OrEmpty(x) == IF x = <<>> THEN <<>> ELSE x[1]

(* --------------------------- environment ------------------------------- *)

WeatherToday ==
    <<"w", "e", "a", "t", "h", "e", "r", " ", "t", "o", "d", "a", "y">>
\* A query with characters the serialiser must escape.
EscapedQuery == <<"c", "+", "+", " ", "a", "&", "b">>
Queries == {WeatherToday, EscapedQuery}

PageURL ==
    <<"h", "t", "t", "p", "s", ":", "/", "/", "e", "x", "a", "m", "p",
      "l", "e", ".", "o", "r", "g", "/">>
VisitURLs == {PageURL}

NotFound == <<"N", "o", "t", " ", "F", "o", "u", "n", "d">>
Forbidden == <<"F", "o", "r", "b", "i", "d", "d", "e", "n">>
\* statusText of a failed response (empty over HTTP/2).
StatusTexts == {NotFound, Forbidden, <<>>}
OkStatusText == <<"O", "K">>

\* Objects of the upstream `results` array; `engine` is a field the
\* handler ignores.
UpstreamObjects ==
    {[url |-> "u1", title |-> "t1", content |-> "c1", engine |-> "bing"],
     [url |-> "u2", title |-> "t2", content |-> "c2", engine |-> "google"]}

UpstreamArrays ==
    UNION {[1..n -> UpstreamObjects] : n \in 0..MaxUpstream}

\* Response bodies of a visited page; extraction, normalisation and
\* truncation would each change them.
PageBodies ==
    {<<"<", "p", ">", " ", " ", "a", "\n", "\n", "b", "\t", "<", "/", "p", ">", "\n">>,
     <<>>}

TextChars == {"a", " ", "\t", "\n"}
Texts == UNION {[1..n -> TextChars] : n \in 0..MaxTextLen}

\* The fields Readability reports besides textContent.
ArticleMetas ==
    {[title |-> <<"T">>, excerpt |-> <<"E">>, byline |-> <<"B">>,
      siteName |-> <<"S">>, lang |-> <<"en">>, publishedTime |-> <<"2024">>],
     [title |-> <<>>, excerpt |-> <<>>, byline |-> <<>>,
      siteName |-> <<>>, lang |-> <<>>, publishedTime |-> <<>>]}

\* What reader.parse() may return: null, or an article whose textContent
\* is null or any text.
Articles ==
    {<<>>} \cup
    {<<[meta |-> m, textContent |-> t]>> :
        m \in ArticleMetas, t \in {<<>>} \cup {<<x>> : x \in Texts}}

(* ------------------------------ results -------------------------------- *)

NoResult ==
    [type |-> "none", text |-> <<>>, results |-> <<>>, article |-> <<>>]
StringResult(s) ==
    [type |-> "string", text |-> s, results |-> <<>>, article |-> <<>>]
SearchOutput(rs) ==
    [type |-> "results", text |-> <<>>, results |-> rs, article |-> <<>>]
ArticleResult(a) ==
    [type |-> "article", text |-> <<>>, results |-> <<>>, article |-> <<a>>]

\* The earlier revisions (part_000 lines 174-180) had no null check and
\* returned the cleaned text of a missing article, the empty string.
ExtractedResultEarlier(parsed, maxContentLength) ==
    IF parsed = <<>>
    THEN StringResult(CleanText(<<>>))
    ELSE ArticleResult(
            [title |-> parsed[1].meta.title,
             content |-> Truncate(CleanText(OrEmpty(parsed[1].textContent)),
                                  maxContentLength),
             excerpt |-> parsed[1].meta.excerpt,
             byline |-> parsed[1].meta.byline,
             siteName |-> parsed[1].meta.siteName,
             lang |-> parsed[1].meta.lang,
             publishedTime |-> parsed[1].meta.publishedTime])

\* Visit after reader.parse(): the null check, the cleaning, the
\* truncation and the returned object.
ExtractedResult(parsed, maxContentLength) ==
    IF parsed = <<>>
    THEN StringResult(ExtractFailure)
    ELSE ArticleResult(
            [title |-> parsed[1].meta.title,
             content |-> Truncate(CleanText(OrEmpty(parsed[1].textContent)),
                                  maxContentLength),
             excerpt |-> parsed[1].meta.excerpt,
             byline |-> parsed[1].meta.byline,
             siteName |-> parsed[1].meta.siteName,
             lang |-> parsed[1].meta.lang,
             publishedTime |-> parsed[1].meta.publishedTime])

\* The steps Visit performs after the body text is read.
ExtractionSteps(parsed, maxContentLength) ==
    <<"extract">> \o
    (IF parsed = <<>> THEN <<>>
     ELSE <<"normalize">> \o
          (IF maxContentLength > 0 /\
              Len(CleanText(OrEmpty(parsed[1].textContent))) > maxContentLength
           THEN <<"truncate">> ELSE <<>>))

\* A handler that asks twice.
FetchTwice(sent, u) == Append(Append(sent, u), u)

\* fetch(u): one outbound GET.
Fetch(sent, u) == Append(sent, u)

(* ------------------------------- state --------------------------------- *)

VARIABLES
    pc,        \* per call: "idle", "fetch", "body", "returned", "thrown"
    tool,      \* per call: "none", "Search" or "Visit"
    args,      \* per call: [query, url, returnRaw]
    config,    \* per call: the configuration the handler read
    requests,  \* per call: the URLs requested, in order
    response,  \* per call: <<>>, or <<[ok, statusText]>> once fetch resolved
    steps,     \* per call: what the handler did with the response body
    data,      \* per call: the parsed JSON `results` (Search)
    html,      \* per call: the body text (Visit)
    article,   \* per call: what reader.parse() returned (Visit)
    result,    \* per call: the value returned
    overlapped \* per call (history): another call was in flight meanwhile

vars ==
    <<pc, tool, args, config, requests, response, steps, data, html,
      article, result, overlapped>>

NoArgs == [query |-> <<>>, url |-> <<>>, returnRaw |-> FALSE]
\* No response yet: fetch has not resolved.
NoResponse == <<>>
NoConfig == [search |-> DefaultSearch, visit |-> DefaultVisit]

Init ==
    /\ pc = [p \in Calls |-> "idle"]
    /\ tool = [p \in Calls |-> "none"]
    /\ args = [p \in Calls |-> NoArgs]
    /\ config = [p \in Calls |-> NoConfig]
    /\ requests = [p \in Calls |-> <<>>]
    /\ response = [p \in Calls |-> NoResponse]
    /\ steps = [p \in Calls |-> <<>>]
    /\ data = [p \in Calls |-> <<>>]
    /\ html = [p \in Calls |-> <<>>]
    /\ article = [p \in Calls |-> <<>>]
    /\ result = [p \in Calls |-> NoResult]
    /\ overlapped = [p \in Calls |-> FALSE]

\* A slot is free until the host invokes a tool in it.
Free(p) == pc[p] = "idle"

\* The handler of call p is suspended at one of its two await points.
InFlight(p) == pc[p] \in {"fetch", "body"}

\* History: a step of call p, taken while other calls are suspended,
\* interleaves p with each of them.
Observe(p) ==
    overlapped' =
        [q \in Calls |->
            IF q = p
            THEN overlapped[p] \/ \E r \in Calls \ {p} : InFlight(r)
            ELSE overlapped[q] \/ InFlight(q)]

\* A configuration object kept at module level and shared by the
\* invocations: the one the call in the highest slot has read.
SharedConfig(p) ==
    config[CHOOSE q \in Calls :
              /\ tool[q] # "none"
              /\ \A r \in Calls : tool[r] # "none" => r <= q]

\* const config = ctl.getPluginConfig(configSchema): a local of the
\* invocation, read once when the handler starts.
OwnConfig(p) == config[p]

(* ------------------------------ actions -------------------------------- *)

\* The host invokes Search: the handler reads the configuration, builds
\* the URL (new URL throws on a base URL that is not absolute) and calls
\* fetch, where it suspends.
SearchCallOn(p, queries, groups) ==
    /\ Free(p)
    /\ \E query \in queries, search \in groups :
        /\ tool' = [tool EXCEPT ![p] = "Search"]
        /\ args' = [args EXCEPT ![p] = [NoArgs EXCEPT !.query = query]]
        /\ config' = [config EXCEPT ![p] =
                        [search |-> search, visit |-> DefaultVisit]]
        /\ IF IsAbsoluteURL(search.baseURL)
           THEN /\ requests' = [requests EXCEPT ![p] =
                                  Fetch(<<>>, SearchURL(search, query))]
                /\ pc' = [pc EXCEPT ![p] = "fetch"]
           ELSE /\ requests' = [requests EXCEPT ![p] = <<>>]
                /\ pc' = [pc EXCEPT ![p] = "thrown"]
    /\ UNCHANGED <<response, steps, data, html, article, result>>
    /\ Observe(p)

SearchCall(p) == SearchCallOn(p, Queries, SearchGroups)

\* The host invokes Visit: the handler reads the configuration and calls
\* fetch on the given URL, where it suspends.
VisitCallOn(p, urls, groups) ==
    /\ Free(p)
    /\ \E url \in urls, returnRaw \in BOOLEAN, visit \in groups :
        /\ tool' = [tool EXCEPT ![p] = "Visit"]
        /\ args' = [args EXCEPT ![p] =
                      [NoArgs EXCEPT !.url = url, !.returnRaw = returnRaw]]
        /\ config' = [config EXCEPT ![p] =
                        [search |-> DefaultSearch, visit |-> visit]]
        /\ requests' = [requests EXCEPT ![p] = Fetch(<<>>, url)]
        /\ pc' = [pc EXCEPT ![p] = "fetch"]
    /\ UNCHANGED <<response, steps, data, html, article, result>>
    /\ Observe(p)

VisitCall(p) == VisitCallOn(p, VisitURLs, VisitGroups)

\* fetch resolves with a 2xx response: the handler starts reading the
\* body (response.json() in Search, response.text() in Visit) and
\* suspends again.
FetchOk(p) ==
    /\ pc[p] = "fetch"
    /\ response' = [response EXCEPT ![p] =
                      <<[ok |-> TRUE, statusText |-> OkStatusText]>>]
    /\ steps' = [steps EXCEPT ![p] =
                   IF tool[p] = "Search" THEN <<"json">> ELSE <<"text">>]
    /\ pc' = [pc EXCEPT ![p] = "body"]
    /\ UNCHANGED <<tool, args, config, requests, data, html, article, result>>
    /\ Observe(p)

\* fetch resolves with a non-2xx response: the handler returns the
\* failure string.
FetchNotOkOn(p, statusTexts) ==
    /\ pc[p] = "fetch"
    /\ \E statusText \in statusTexts :
        /\ response' = [response EXCEPT ![p] =
                          <<[ok |-> FALSE, statusText |-> statusText]>>]
        /\ result' = [result EXCEPT ![p] =
                        StringResult(FailureString(statusText))]
    /\ pc' = [pc EXCEPT ![p] = "returned"]
    /\ UNCHANGED <<tool, args, config, requests, steps, data, html, article>>
    /\ Observe(p)

FetchNotOk(p) == FetchNotOkOn(p, StatusTexts)

\* fetch rejects (network error): the handler throws.
FetchReject(p) ==
    /\ pc[p] = "fetch"
    /\ pc' = [pc EXCEPT ![p] = "thrown"]
    /\ UNCHANGED <<tool, args, config, requests, response, steps, data, html,
                   article, result>>
    /\ Observe(p)

\* Search: response.json() resolves with an object whose `results` is an
\* array; the handler maps, caps and returns it.
SearchJsonOn(p, arrays) ==
    /\ pc[p] = "body"
    /\ tool[p] = "Search"
    /\ \E results \in arrays :
        /\ data' = [data EXCEPT ![p] = results]
        /\ result' = [result EXCEPT ![p] =
                        SearchOutput(FilteredResults(
                            results, OwnConfig(p).search.maxResults))]
    /\ pc' = [pc EXCEPT ![p] = "returned"]
    /\ UNCHANGED <<tool, args, config, requests, response, steps, html, article>>
    /\ Observe(p)

SearchJson(p) == SearchJsonOn(p, UpstreamArrays)

\* Visit: response.text() resolves; the handler returns the body raw, or
\* the outcome of the extraction.
VisitTextOn(p, bodies, articles) ==
    /\ pc[p] = "body"
    /\ tool[p] = "Visit"
    /\ \E body \in bodies :
        /\ html' = [html EXCEPT ![p] = body]
        /\ IF IsRaw(args[p].returnRaw, OwnConfig(p).visit.forceRaw)
           THEN /\ result' = [result EXCEPT ![p] = StringResult(body)]
                /\ UNCHANGED <<steps, article>>
           ELSE \E parsed \in articles :
                /\ article' = [article EXCEPT ![p] = parsed]
                /\ steps' = [steps EXCEPT ![p] =
                               @ \o ExtractionSteps(
                                   parsed, OwnConfig(p).visit.maxContentLength)]
                /\ result' = [result EXCEPT ![p] =
                                ExtractedResult(
                                    parsed, OwnConfig(p).visit.maxContentLength)]
    /\ pc' = [pc EXCEPT ![p] = "returned"]
    /\ UNCHANGED <<tool, args, config, requests, response, data>>
    /\ Observe(p)

VisitText(p) == VisitTextOn(p, PageBodies, Articles)

\* Reading the body fails: the stream breaks, or in Search the body is
\* not JSON or carries no `results` array.  The handler throws.
BodyReject(p) ==
    /\ pc[p] = "body"
    /\ pc' = [pc EXCEPT ![p] = "thrown"]
    /\ UNCHANGED <<tool, args, config, requests, response, steps, data, html,
                   article, result>>
    /\ Observe(p)

\* The invocation has ended (returned or thrown) and the host has taken
\* its outcome: nothing of the invocation outlives it.
Release(p) ==
    /\ pc[p] \in {"returned", "thrown"}
    /\ pc' = [pc EXCEPT ![p] = "idle"]
    /\ tool' = [tool EXCEPT ![p] = "none"]
    /\ args' = [args EXCEPT ![p] = NoArgs]
    /\ config' = [config EXCEPT ![p] = NoConfig]
    /\ requests' = [requests EXCEPT ![p] = <<>>]
    /\ response' = [response EXCEPT ![p] = NoResponse]
    /\ steps' = [steps EXCEPT ![p] = <<>>]
    /\ data' = [data EXCEPT ![p] = <<>>]
    /\ html' = [html EXCEPT ![p] = <<>>]
    /\ article' = [article EXCEPT ![p] = <<>>]
    /\ result' = [result EXCEPT ![p] = NoResult]
    /\ overlapped' = [overlapped EXCEPT ![p] = FALSE]

Step(p) ==
    \/ SearchCall(p)
    \/ VisitCall(p)
    \/ FetchOk(p)
    \/ FetchNotOk(p)
    \/ FetchReject(p)
    \/ SearchJson(p)
    \/ VisitText(p)
    \/ BodyReject(p)
    \/ Release(p)

\* A host that runs its tool calls one after the other uses one slot.
SequentialCalls == {p \in Calls : \A q \in Calls : p <= q}

Next == \E p \in SequentialCalls : Step(p)

Spec == Init /\ [][Next]_vars

(* ----------------------- concurrent invocations ------------------------ *)

\* The inputs of the concurrent host: few, and chosen so that two calls
\* of the same tool differ in every setting their results depend on.
ScopeQueries == {WeatherToday}
ScopeSearchGroups ==
    {DefaultSearch, [DefaultSearch EXCEPT !.maxResults = 1]}
ScopeVisitGroups ==
    {[forceRaw |-> FALSE, maxContentLength |-> 2],
     [forceRaw |-> TRUE, maxContentLength |-> 0]}
ScopeStatusTexts == {NotFound}
ScopeArrays == {a \in [1..2 -> UpstreamObjects] : a[1] # a[2]}
ScopeBodies == PageBodies \ {<<>>}
ScopeArticles ==
    {<<>>,
     <<[meta |-> CHOOSE m \in ArticleMetas : m.title # <<>>,
        textContent |-> <<<<"a", " ", " ", "a", "\n", "a">>>>]>>}

\* A step of call p under the concurrent host.
ConcurrentStep(p) ==
    \/ SearchCallOn(p, ScopeQueries, ScopeSearchGroups)
    \/ VisitCallOn(p, VisitURLs, ScopeVisitGroups)
    \/ FetchOk(p)
    \/ FetchNotOkOn(p, ScopeStatusTexts)
    \/ FetchReject(p)
    \/ SearchJsonOn(p, ScopeArrays)
    \/ VisitTextOn(p, ScopeBodies, ScopeArticles)
    \/ BodyReject(p)
    \/ Release(p)

\* A host that invokes its tools concurrently: any call may take the next
\* step, so the handlers interleave at their await points in every order.
NextConcurrent == \E p \in Calls : ConcurrentStep(p)

SpecConcurrent == Init /\ [][NextConcurrent]_vars

(* ------------------------------ claims --------------------------------- *)

Returned(p) == pc[p] = "returned"
GotOk(p) == response[p] # <<>> /\ response[p][1].ok
GotNotOk(p) == response[p] # <<>> /\ ~response[p][1].ok
SearchReturnedOk(p) == Returned(p) /\ tool[p] = "Search" /\ GotOk(p)
VisitReturnedOk(p) == Returned(p) /\ tool[p] = "Visit" /\ GotOk(p)

\* The upstream object r as the Search result the claims expect.
ExpectedResult(r) == [title |-> r.title, summary |-> r.content, url |-> r.url]

\* C1: with maxResults = 0 a successful Search returns every upstream
\* result, same length and same order (0 means unlimited).
C1_ZeroReturnsAll ==
    \A p \in Calls :
        (SearchReturnedOk(p) /\ config[p].search.maxResults = 0) =>
            /\ result[p].type = "results"
            /\ Len(result[p].results) = Len(data[p])
            /\ \A i \in 1..Len(data[p]) :
                  result[p].results[i] = ExpectedResult(data[p][i])

\* C2: with maxResults = N > 0 a successful Search returns exactly the
\* first min(N, |R|) upstream results, in upstream order, each mapped to
\* {title, summary: content, url}.
C2_PrefixOfUpstream ==
    \A p \in Calls :
        (SearchReturnedOk(p) /\ config[p].search.maxResults > 0) =>
            /\ result[p].type = "results"
            /\ Len(result[p].results) =
                  Min(config[p].search.maxResults, Len(data[p]))
            /\ \A i \in 1..Len(result[p].results) :
                  result[p].results[i] = ExpectedResult(data[p][i])

\* A Search with maxResults = 2 that got three results, the first two
\* different, and returned two.
C2_Witness ==
    \E p \in Calls :
        /\ SearchReturnedOk(p)
        /\ config[p].search.maxResults = 2
        /\ Len(data[p]) = 3
        /\ data[p][1] # data[p][2]
        /\ Len(result[p].results) = 2

\* C3: on a non-2xx response Search and Visit return a string that
\* contains the status text, and do nothing more: no body read, no parse,
\* no extraction, no second request.
C3_FailureIsTerminalString ==
    \A p \in Calls :
        GotNotOk(p) =>
            /\ Returned(p)
            /\ result[p].type = "string"
            /\ Contains(result[p].text, response[p][1].statusText)
            /\ steps[p] = <<>>
            /\ data[p] = <<>> /\ html[p] = <<>> /\ article[p] = <<>>
            /\ Len(requests[p]) = 1

\* A Visit that got a "Not Found" response and returned.
C3_Witness ==
    \E p \in Calls :
        /\ tool[p] = "Visit"
        /\ GotNotOk(p)
        /\ response[p][1].statusText = NotFound
        /\ Returned(p)

\* C4: on a 2xx response, Visit with returnRaw or forceRaw set returns
\* the body text unmodified, without extraction, normalisation or
\* truncation; forceRaw alone gives what returnRaw gives.
C4_RawIsVerbatim ==
    \A p \in Calls :
        (VisitReturnedOk(p) /\
         (args[p].returnRaw \/ config[p].visit.forceRaw)) =>
            /\ result[p].type = "string"
            /\ result[p].text = html[p]
            /\ steps[p] = <<"text">>
            /\ article[p] = <<>>

\* A Visit with forceRaw set and returnRaw not set that returned a body
\* longer than maxContentLength, with whitespace that cleaning would drop.
C4_Witness ==
    \E p \in Calls :
        /\ VisitReturnedOk(p)
        /\ config[p].visit.forceRaw /\ ~args[p].returnRaw
        /\ config[p].visit.maxContentLength = 1
        /\ Len(html[p]) > 1
        /\ CleanText(html[p]) # html[p]
        /\ result[p].text = html[p]

\* C5: on a 2xx response, with returnRaw and forceRaw both false, when
\* the extraction finds no article Visit returns exactly the string
\* "Failed to extract readable content.".
C5_NoArticleFixedString ==
    \A p \in Calls :
        (VisitReturnedOk(p) /\ ~args[p].returnRaw /\
         ~config[p].visit.forceRaw /\ article[p] = <<>>) =>
            /\ steps[p] = <<"text", "extract">>
            /\ result[p].type = "string"
            /\ result[p].text = ExtractFailure
            /\ result[p].text # <<>>

\* A non-raw Visit whose extraction found no article.
C5_Witness ==
    \E p \in Calls :
        /\ VisitReturnedOk(p)
        /\ ~args[p].returnRaw /\ ~config[p].visit.forceRaw
        /\ "extract" \in {steps[p][i] : i \in 1..Len(steps[p])}
        /\ article[p] = <<>>

\* The normalised text of the article a Visit extracted.
NormalisedText(p) == CleanText(OrEmpty(article[p][1].textContent))
ArticleReturned(p) == VisitReturnedOk(p) /\ result[p].type = "article"
Content(p) == result[p].article[1].content

\* C6: with maxContentLength = L and normalised text T, the content is
\* the first L characters of T followed by the truncation marker when
\* L > 0 and |T| > L, and T unchanged otherwise.
C6_TruncateAtLimit ==
    \A p \in Calls :
        ArticleReturned(p) =>
            LET L == config[p].visit.maxContentLength
                T == NormalisedText(p)
                c == Content(p)
            IN IF L > 0 /\ Len(T) > L
               THEN /\ Len(c) = L + Len(TruncationMarker)
                    /\ \A i \in 1..L : c[i] = T[i]
                    /\ SubSeq(c, L + 1, Len(c)) = TruncationMarker
               ELSE c = T

\* A Visit with maxContentLength = 2 whose normalised text had three
\* characters and was cut.
C6_Witness ==
    \E p \in Calls :
        /\ ArticleReturned(p)
        /\ config[p].visit.maxContentLength = 2
        /\ Len(NormalisedText(p)) = 3
        /\ Len(Content(p)) = 2 + Len(TruncationMarker)

\* C7: when extraction succeeds, the content has no two adjacent
\* newlines, no run of two or more spaces/tabs, and no leading or
\* trailing whitespace.
C7_ContentNormalised ==
    \A p \in Calls :
        ArticleReturned(p) =>
            LET c == Content(p)
            IN /\ \A i \in 1..(Len(c) - 1) :
                     /\ ~(c[i] = "\n" /\ c[i + 1] = "\n")
                     /\ ~(c[i] \in Blank /\ c[i + 1] \in Blank)
               /\ c # <<>> =>
                     (c[1] \notin Whitespace /\ c[Len(c)] \notin Whitespace)

\* A Visit whose article text had a run of blanks before a newline: the
\* run is collapsed to one space and the text is returned as an article.
C7_Witness ==
    \E p \in Calls :
        /\ ArticleReturned(p)
        /\ article[p][1].textContent = <<<<"a", " ", "\t", "\n", "a">>>>
        /\ Content(p) = <<"a", " ", "\n", "a">>

\* The character c as the claim C8 takes the query to be encoded:
\* percent-encoded, a space as %20.
C8_ClaimedEncodeChar(c) ==
    IF c = " " THEN <<"%", "2", "0">> ELSE FormEncodeChar(c)
C8_ClaimedEncode(s) ==
    Flatten([i \in 1..Len(s) |-> C8_ClaimedEncodeChar(s[i])])

SearchRequested(p) == tool[p] = "Search" /\ requests[p] # <<>>

\* C8 as stated: the URL is the base endpoint followed by q (percent-
\* encoded, a space as %20), engines (joined by commas), language,
\* format=json and safesearch, in this order and no others.
C8_PercentEncodedURL ==
    \A p \in Calls :
        SearchRequested(p) =>
            requests[p][1] =
                URLHref(config[p].search.baseURL) \o <<"?">> \o
                ParamQ \o <<"=">> \o C8_ClaimedEncode(args[p].query) \o
                <<"&">> \o ParamEngines \o <<"=">> \o
                    Join(config[p].search.engines, <<",">>) \o
                <<"&">> \o ParamLanguage \o <<"=">> \o
                    config[p].search.language \o
                <<"&">> \o ParamFormat \o <<"=">> \o FormatJson \o
                <<"&">> \o ParamSafesearch \o <<"=">> \o
                    DigitString(SafeSearchNumber(config[p].search.safeSearch))

C8_ExampleQueryString ==
    <<"q", "=", "w", "e", "a", "t", "h", "e", "r", "+", "t", "o", "d",
      "a", "y", "&", "e", "n", "g", "i", "n", "e", "s", "=", "b", "i",
      "n", "g", "&", "l", "a", "n", "g", "u", "a", "g", "e", "=", "e",
      "n", "-", "U", "S", "&", "f", "o", "r", "m", "a", "t", "=", "j",
      "s", "o", "n", "&", "s", "a", "f", "e", "s", "e", "a", "r", "c",
      "h", "=", "2">>

C8_IsExample(p) ==
    /\ args[p].query = WeatherToday
    /\ config[p].search.engines = <<Bing>>
    /\ config[p].search.language = EnUS
    /\ config[p].search.safeSearch = "Off"

\* C8 (amended): the URL is the serialised base endpoint followed by
\* exactly q, engines, language, format=json and safesearch, in this
\* order, each value form-urlencoded: a space of the query as "+", the
\* commas joining the engines as %2C.  "weather today", ["bing"], en-US,
\* Off gives q=weather+today&engines=bing&language=en-US&format=json&
\* safesearch=2.
C8_FormEncodedURL ==
    \A p \in Calls :
        SearchRequested(p) =>
            /\ requests[p][1] =
                URLHref(config[p].search.baseURL) \o <<"?">> \o
                ParamQ \o <<"=">> \o FormEncode(args[p].query) \o
                <<"&">> \o ParamEngines \o <<"=">> \o
                    FormEncode(Join(config[p].search.engines, <<",">>)) \o
                <<"&">> \o ParamLanguage \o <<"=">> \o
                    config[p].search.language \o
                <<"&">> \o ParamFormat \o <<"=">> \o FormatJson \o
                <<"&">> \o ParamSafesearch \o <<"=">> \o
                    DigitString(SafeSearchNumber(config[p].search.safeSearch))
            /\ C8_IsExample(p) =>
                requests[p][1] =
                    URLHref(config[p].search.baseURL) \o <<"?">> \o
                    C8_ExampleQueryString

\* The example of the claim: a Search of "weather today" on bing, en-US,
\* Off has sent its request.
C8_Witness ==
    \E p \in Calls :
        /\ SearchRequested(p)
        /\ C8_IsExample(p)
        /\ Contains(requests[p][1], C8_ExampleQueryString)

\* The safesearch digit the claim C9 gives for each level.
C9_Expected(level) ==
    CASE level = "Off" -> <<"2">>
      [] level = "Moderate" -> <<"1">>
      [] level = "Strict" -> <<"0">>

\* C9: the safesearch value Search sends is 2 for Off, 1 for Moderate and
\* 0 for Strict.
C9_SafeSearchSent ==
    \A p \in Calls :
        SearchRequested(p) =>
            LET u == requests[p][1]
                n == Len(ParamSafesearch) + 3
            IN /\ Len(u) > n
               /\ SubSeq(u, Len(u) - n + 1, Len(u)) =
                     <<"&">> \o ParamSafesearch \o <<"=">> \o
                     C9_Expected(config[p].search.safeSearch)

\* A Search under Strict whose URL ends in safesearch=0.
C9_Witness ==
    \E p \in Calls :
        /\ SearchRequested(p)
        /\ config[p].search.safeSearch = "Strict"
        /\ requests[p][1][Len(requests[p][1])] = "0"

\* C10: an invocation never has more than one outbound request, and has
\* exactly one when it returns, on every path.
C10_OneRequest ==
    \A p \in Calls :
        /\ Len(requests[p]) <= 1
        /\ pc[p] \in {"fetch", "body", "returned"} => Len(requests[p]) = 1

\* A Visit that returned a truncated article after one request.
C10_Witness ==
    \E p \in Calls :
        /\ ArticleReturned(p)
        /\ "truncate" \in {steps[p][i] : i \in 1..Len(steps[p])}
        /\ Len(requests[p]) = 1

\* What the invocation in slot p returns when it runs alone: a function
\* of its own arguments, the configuration it read and its own upstream
\* response (status, body, extraction outcome).
AloneResult(p) ==
    IF GotNotOk(p)
    THEN StringResult(FailureString(response[p][1].statusText))
    ELSE IF tool[p] = "Search"
    THEN SearchOutput(FilteredResults(data[p], config[p].search.maxResults))
    ELSE IF IsRaw(args[p].returnRaw, config[p].visit.forceRaw)
    THEN StringResult(html[p])
    ELSE ExtractedResult(article[p], config[p].visit.maxContentLength)

\* C11: under any interleaving of concurrent Search and Visit invocations
\* at their await points, what an invocation returns is what it returns
\* when run alone: it depends only on its own arguments, configuration
\* and upstream response.
C11_ResultAsAlone ==
    \A p \in Calls : Returned(p) => result[p] = AloneResult(p)

\* Two Searches that interleaved and got the same upstream results under
\* different maxResults: each returned by its own configuration.
C11_Witness ==
    \E p \in Calls, q \in Calls :
        /\ p # q
        /\ SearchReturnedOk(p) /\ SearchReturnedOk(q)
        /\ overlapped[p] /\ overlapped[q]
        /\ data[p] = data[q]
        /\ config[p].search.maxResults = 1
        /\ config[q].search.maxResults = DefaultMaxResults
        /\ Len(result[p].results) = 1
        /\ Len(result[q].results) = 2

====
